---- MODULE Spec2Model ----
(***************************************************************************)
(* Model of the hotel_booking scaffolding: the module generator            *)
(* (src/tools/generate-module.js) and the CRUD service / repository        *)
(* adapter it stamps into every generated module, together with the        *)
(* shared pagination contract (src/common/dto/pagination.dto.ts).          *)
(*                                                                         *)
(* Strings that the code inspects character by character (the resource     *)
(* name) are sequences of UTF-16 code units; a code unit is written as a   *)
(* short TLA+ string ("sz" stands for U+00DF, LATIN SMALL LETTER SHARP S). *)
(***************************************************************************)
EXTENDS Integers, Sequences, FiniteSets, TLC

VARIABLES
    argv,           \* command-line arguments after the script path
    Name,           \* const Name = capitalize(name)
    NAME,           \* const NAME = name.toUpperCase()
    pc,             \* position of the generator script
    idx,            \* index of the next folder / file of the current loop
    exitCode,       \* exit status of the process (meaningful when pc = "exit")
    errorReported,  \* console.error was called in this run
    fs,             \* the filesystem below src/core/<name>
    fs0,            \* the filesystem when the current run started
    made,           \* directories passed to mkdirSync in this run, in order
    written,        \* paths passed to writeFileSync in this run, in order
    run,            \* number of the current invocation
    snap,           \* the filesystem when the first invocation ended
    rows,           \* the table of the generated entity, in physical order
    clock,          \* CURRENT_TIMESTAMP of the database
    upd,            \* service.update calls suspended after their findOne
    del,            \* service.delete calls suspended after their findOne
    req,            \* the pagination / filter request handed to the listings
    last            \* latest service request together with its outcome

genVars == <<argv, Name, NAME, pc, idx, exitCode, errorReported, fs, fs0, made, written,
            run, snap>>
svcVars == <<rows, clock, upd, del, req, last>>
vars == <<argv, Name, NAME, pc, idx, exitCode, errorReported, fs, fs0, made, written,
          run, snap, rows, clock, upd, del, req, last>>

(***************************************************************************)
(* Bounds                                                                  *)
(***************************************************************************)
MaxNameLen == 2
MaxRuns == 2

Range(s) == {s[i] : i \in DOMAIN s}

(***************************************************************************)
(* Resource names and their variants                                       *)
(***************************************************************************)
Alphabet == {"a", "b", "sz", "A"}

\* String.prototype.toUpperCase on one code unit: the full Unicode mapping,
\* which turns U+00DF into the two code units "SS".
UpperOf(c) ==
    CASE c = "a" -> <<"A">>
      [] c = "b" -> <<"B">>
      [] c = "sz" -> <<"S", "S">>
      [] OTHER -> <<c>>

RECURSIVE toUpperCase(_)
toUpperCase(str) ==
    IF str = <<>> THEN <<>>
    ELSE UpperOf(Head(str)) \o toUpperCase(Tail(str))

\* str.charAt(i): the code unit at index i, or "" when out of range
charAt(str, i) == IF i + 1 <= Len(str) THEN <<str[i + 1]>> ELSE <<>>

\* str.slice(b)
slice(str, b) == SubSeq(str, b + 1, Len(str))

capitalizeNoUpper(str) == charAt(str, 0) \o slice(str, 1)
capitalize(str) == toUpperCase(charAt(str, 0)) \o slice(str, 1)

RECURSIVE SeqsUpTo(_)
SeqsUpTo(n) ==
    IF n = 0 THEN {<<>>}
    ELSE LET S == SeqsUpTo(n - 1)
         IN S \cup {Append(s, c) : s \in {t \in S : Len(t) = n - 1}, c \in Alphabet}

Names == SeqsUpTo(MaxNameLen)

\* process.argv[2] is undefined when no argument was given
HasName == Len(argv) >= 1
name == IF HasName THEN argv[1] ELSE <<>>
\* !name : undefined and the empty string are both falsy
NameGuardOnlyUndefined == ~HasName
NameMissing == ~HasName \/ name = <<>>

(***************************************************************************)
(* The filesystem below base = src/core/<name>                             *)
(***************************************************************************)
FoldersNoMappers ==
    << "base", "domain", "dto", "infrastructure/entities",
       "infrastructure/repositories", "infrastructure/providers" >>
Folders ==
    << "base", "domain", "dto", "infrastructure/entities",
       "infrastructure/repositories", "infrastructure/providers", "mappers" >>

Files ==
    << "domain/{name}.domain.ts",
       "dto/create-{name}.dto.ts",
       "dto/update-{name}.dto.ts",
       "dto/filter-{name}.dto.ts",
       "infrastructure/entities/{name}.entity.ts",
       "infrastructure/repositories/{name}.repository.ts",
       "infrastructure/repositories/{name}.repository.impl.ts",
       "mappers/{name}.mapper.ts",
       "infrastructure/providers/{name}.providers.ts",
       "{name}.service.ts",
       "{name}.controller.ts",
       "{name}.module.ts" >>

FileNodes == Range(Files)
DirNodes ==
    {"base", "domain", "dto", "infrastructure", "infrastructure/entities",
     "infrastructure/repositories", "infrastructure/providers", "mappers"}
Nodes == DirNodes \cup FileNodes

\* the directory a path lies in ("base" is created below the working directory)
Parent(n) ==
    CASE n \in {"domain", "dto", "infrastructure", "mappers",
                "{name}.service.ts", "{name}.controller.ts", "{name}.module.ts"} -> "base"
      [] n \in {"infrastructure/entities", "infrastructure/repositories",
                "infrastructure/providers"} -> "infrastructure"
      [] n = "domain/{name}.domain.ts" -> "domain"
      [] n \in {"dto/create-{name}.dto.ts", "dto/update-{name}.dto.ts",
                "dto/filter-{name}.dto.ts"} -> "dto"
      [] n = "infrastructure/entities/{name}.entity.ts" -> "infrastructure/entities"
      [] n \in {"infrastructure/repositories/{name}.repository.ts",
                "infrastructure/repositories/{name}.repository.impl.ts"}
             -> "infrastructure/repositories"
      [] n = "infrastructure/providers/{name}.providers.ts" -> "infrastructure/providers"
      [] n = "mappers/{name}.mapper.ts" -> "mappers"
      [] OTHER -> "base"

RECURSIVE Ancestors(_)
Ancestors(n) == IF n = "base" THEN {} ELSE {Parent(n)} \cup Ancestors(Parent(n))

Absent == [kind |-> "absent", content |-> <<>>]
Dir == [kind |-> "dir", content |-> <<>>]
FileOf(c) == [kind |-> "file", content |-> c]

\* the text of a template after substitution: a function of the template and of
\* the name variants substituted into it
Template(f, n, N) == << [template |-> f, name |-> n, Name |-> N] >>
OldContent == << [template |-> "other", name |-> <<>>, Name |-> <<>>] >>

\* fs.mkdirSync(dir, { recursive: true })
MkdirFails(filesys, d) ==
    \/ filesys[d].kind = "file"
    \/ \E a \in Ancestors(d) : filesys[a].kind = "file"
MkdirSync(filesys, d) ==
    [n \in Nodes |-> IF n = d \/ n \in Ancestors(d) THEN Dir ELSE filesys[n]]

\* fs.writeFileSync(file, data)
WriteFails(filesys, f) ==
    \/ filesys[f].kind = "dir"
    \/ filesys[Parent(f)].kind # "dir"
AppendFileSync(filesys, f, c) ==
    [filesys EXCEPT ![f] = FileOf(filesys[f].content \o c)]
WriteFileSync(filesys, f, c) == [filesys EXCEPT ![f] = FileOf(c)]

\* starting filesystems: a set of existing directories, and regular files with
\* other contents (at a template's path, or in the way of a folder)
ValidFS(filesys) ==
    \A n \in Nodes \ {"base"} : filesys[n].kind # "absent" => filesys[Parent(n)].kind = "dir"
StartDirs ==
    {{}, {"base"}, DirNodes} \cup {DirNodes \cup {f} : f \in FileNodes}
StartOlds ==
    {{}, FileNodes} \cup {{n} : n \in Nodes}
StartFS(dirs, olds) ==
    [n \in Nodes |-> IF n \in dirs THEN Dir
                     ELSE IF n \in olds THEN FileOf(OldContent) ELSE Absent]
StartFileSystems ==
    {fsys \in {StartFS(d, o) : d \in StartDirs, o \in StartOlds} : ValidFS(fsys)}

(***************************************************************************)
(* The generator script                                                    *)
(***************************************************************************)
GenInit ==
    /\ argv \in {<<>>} \cup {<<n>> : n \in Names}
    /\ Name = <<>>
    /\ NAME = <<>>
    /\ pc = "guard"
    /\ idx = 1
    /\ exitCode = 0
    /\ errorReported = FALSE
    /\ fs \in StartFileSystems
    /\ fs0 = fs
    /\ made = <<>>
    /\ written = <<>>
    /\ run = 1
    /\ snap = fs

Exit(code) ==
    /\ pc' = "exit"
    /\ exitCode' = code
    /\ snap' = IF run = 1 THEN fs' ELSE snap

\* if (!name) { console.error(...); process.exit(1); }
Guard ==
    /\ pc = "guard"
    /\ IF NameMissing
       THEN /\ errorReported' = TRUE
            /\ fs' = fs
            /\ Exit(1)
            /\ UNCHANGED <<idx, Name, NAME>>
       ELSE /\ Name' = capitalize(name)
            /\ NAME' = toUpperCase(name)
            /\ pc' = "mkdir"
            /\ idx' = 1
            /\ UNCHANGED <<errorReported, exitCode, fs, snap>>
    /\ UNCHANGED <<argv, fs0, made, written, run>>
    /\ UNCHANGED svcVars

\* [...].forEach((dir) => fs.mkdirSync(dir, { recursive: true }))
Mkdir ==
    /\ pc = "mkdir"
    /\ LET d == Folders[idx] IN
       /\ made' = Append(made, d)
       /\ IF MkdirFails(fs, d)
          THEN /\ fs' = fs
               /\ Exit(1)
               /\ UNCHANGED idx
          ELSE /\ fs' = MkdirSync(fs, d)
               /\ IF idx < Len(Folders)
                  THEN /\ idx' = idx + 1
                       /\ pc' = "mkdir"
                  ELSE /\ idx' = 1
                       /\ pc' = "write"
               /\ UNCHANGED <<exitCode, snap>>
    /\ UNCHANGED <<argv, Name, NAME, errorReported, fs0, written, run>>
    /\ UNCHANGED svcVars

\* for (const file in files) { fs.writeFileSync(file, files[file]); }
WriteFile ==
    /\ pc = "write"
    /\ LET f == Files[idx] IN
       /\ written' = Append(written, f)
       /\ IF WriteFails(fs, f)
          THEN /\ fs' = fs
               /\ Exit(1)
               /\ UNCHANGED idx
          ELSE /\ fs' = WriteFileSync(fs, f, Template(f, name, Name))
               /\ IF idx < Len(Files)
                  THEN /\ idx' = idx + 1
                       /\ pc' = "write"
                  ELSE /\ idx' = 1
                       /\ pc' = "report"
               /\ UNCHANGED <<exitCode, snap>>
    /\ UNCHANGED <<argv, Name, NAME, errorReported, fs0, made, run>>
    /\ UNCHANGED svcVars

\* the closing console.log lines; the script then ends with status 0
Report ==
    /\ pc = "report"
    /\ fs' = fs
    /\ Exit(0)
    /\ UNCHANGED <<argv, Name, NAME, idx, errorReported, fs0, made, written, run>>
    /\ UNCHANGED svcVars

\* the operator invokes the generator again with the same argument
Rerun ==
    /\ pc = "exit"
    /\ run < MaxRuns
    /\ run' = run + 1
    /\ pc' = "guard"
    /\ idx' = 1
    /\ exitCode' = 0
    /\ errorReported' = FALSE
    /\ fs0' = fs
    /\ made' = <<>>
    /\ written' = <<>>
    /\ Name' = <<>>
    /\ NAME' = <<>>
    /\ UNCHANGED <<argv, fs, snap>>
    /\ UNCHANGED svcVars

GenNext == Guard \/ Mkdir \/ WriteFile \/ Report \/ Rerun


(***************************************************************************)
(* The table behind the generated entity                                   *)
(***************************************************************************)
MaxRows == 2
MaxClock == 2
MaxLimit == 2
MaxOffset == 2
MaxInflight == 1

\* deletedAt of a row that is not soft-deleted
NULL == 0
EntityColumns == {"id", "createdAt", "updatedAt", "deletedAt"}

Ids == 1..(MaxRows + 1)
Payloads == {[name |-> "n1"]}

Min(a, b) == IF a < b THEN a ELSE b

\* rows that the ORM's find operations see: soft-deleted rows are filtered out
Live(r) == r.deletedAt = NULL

\* the rows of s that are in keep, in the order of s
SelectSeq2(s, keep) ==
    LET Test(r) == r \in keep IN SelectSeq(s, Test)

\* text of a column value, and ILike(`%search%`) on it
Text(v) == <<ToString(v)>>
Lower(c) == IF c = "A" THEN "a" ELSE c
LowerStr(s) == [i \in DOMAIN s |-> Lower(s[i])]
ILike(text, search) ==
    \E i \in 0..(Len(text) - Len(search)) :
        LowerStr(SubSeq(text, i + 1, i + Len(search))) = LowerStr(search)

Satisfies(r, where) == \A w \in where : ILike(Text(r[w.field]), w.pattern)

Less(a, b, field, order) ==
    IF order = "ASC" THEN a[field] < b[field] ELSE a[field] > b[field]

\* ORDER BY field order; rows that compare equal keep their physical order
RECURSIVE InsertRow(_, _, _, _)
InsertRow(s, r, field, order) ==
    IF s = <<>> THEN <<r>>
    ELSE IF Less(r, Head(s), field, order) THEN <<r>> \o s
         ELSE <<Head(s)>> \o InsertRow(Tail(s), r, field, order)

RECURSIVE SortRows(_, _, _)
SortRows(s, field, order) ==
    IF s = <<>> THEN <<>>
    ELSE InsertRow(SortRows(SubSeq(s, 1, Len(s) - 1), field, order), s[Len(s)], field, order)

\* this.repo.findAndCount({ where, take, skip, order: { [sort]: order } })
findAndCountTotalAfterPaging(store, where, take, skip, sort, order) ==
    IF sort \notin EntityColumns \/ \E w \in where : w.field \notin EntityColumns
    THEN [status |-> "EntityPropertyNotFoundError", data |-> <<>>, total |-> 0]
    ELSE LET matching == SelectSeq2(store, {r \in Range(store) : Live(r) /\ Satisfies(r, where)})
             sorted == SortRows(matching, sort, order)
             page == SubSeq(sorted, skip + 1, Min(skip + take, Len(sorted)))
         IN [status |-> "ok", data |-> page, total |-> Len(page)]
findAndCount(store, where, take, skip, sort, order) ==
    IF sort \notin EntityColumns \/ \E w \in where : w.field \notin EntityColumns
    THEN [status |-> "EntityPropertyNotFoundError", data |-> <<>>, total |-> 0]
    ELSE LET matching == SelectSeq2(store, {r \in Range(store) : Live(r) /\ Satisfies(r, where)})
             sorted == SortRows(matching, sort, order)
         IN [status |-> "ok",
             data |-> SubSeq(sorted, skip + 1, Min(skip + take, Len(sorted))),
             total |-> Len(sorted)]

\* this.repo.findOne({ where: { id } }) : <<row>>, or <<>> for null
repoFindById(store, id) == SelectSeq2(store, {r \in Range(store) : Live(r) /\ r.id = id})

\* this.repo.save(this.repo.create(data)) : only declared columns are copied
repoCreate(store, data, now) ==
    Append(store, [id |-> Len(store) + 1, createdAt |-> now, updatedAt |-> now,
                   deletedAt |-> NULL])

\* this.repo.update(id, data) : UPDATE ... SET ..., updatedAt = now WHERE id = :id
\* (the statement carries no soft-delete condition)
ApplyData(r, data) ==
    [c \in EntityColumns |-> IF c \in DOMAIN data THEN data[c] ELSE r[c]]
ormUpdate(store, id, data, now) ==
    [i \in DOMAIN store |->
        IF store[i].id = id
        THEN [ApplyData(store[i], data) EXCEPT !.updatedAt = now]
        ELSE store[i]]

\* this.repo.softDelete(id)
ormHardDelete(store, id, now) == SelectSeq2(store, {r \in Range(store) : r.id # id})
ormSoftDelete(store, id, now) ==
    [i \in DOMAIN store |->
        IF store[i].id = id
        THEN [store[i] EXCEPT !.deletedAt = now, !.updatedAt = now]
        ELSE store[i]]

(***************************************************************************)
(* The repository adapter  ${Name}RepositoryImpl                           *)
(***************************************************************************)
DefaultLimit == 10
DefaultOffset == 0
DefaultSort == "createdAt"
DefaultOrder == "DESC"
SearchField == "guestName"

\* x || d
OrNum(x, d) == IF x # 0 THEN x ELSE d
OrStr(x, d) == IF x # "" THEN x ELSE d

Paginated(found, limit, offset) ==
    IF found.status = "ok"
    THEN [status |-> "ok", data |-> found.data, total |-> found.total,
          limit |-> limit, offset |-> offset]
    ELSE [status |-> found.status]

implFindAll(store, pagination) ==
    LET limit == OrNum(pagination.limit, DefaultLimit)
        offset == OrNum(pagination.offset, DefaultOffset)
        sort == OrStr(pagination.sort, DefaultSort)
        order == OrStr(pagination.order, DefaultOrder)
    IN Paginated(findAndCount(store, {}, limit, offset, sort, order), limit, offset)

implFindWithFilterAscDefault(store, filter) ==
    LET limit == OrNum(filter.limit, DefaultLimit)
        offset == OrNum(filter.offset, DefaultOffset)
        sort == OrStr(filter.sort, DefaultSort)
        order == OrStr(filter.order, "ASC")
        search == filter.search
        where == IF search # <<>> THEN {[field |-> SearchField, pattern |-> search]} ELSE {}
    IN Paginated(findAndCount(store, where, limit, offset, sort, order), limit, offset)
implFindWithFilter(store, filter) ==
    LET limit == OrNum(filter.limit, DefaultLimit)
        offset == OrNum(filter.offset, DefaultOffset)
        sort == OrStr(filter.sort, DefaultSort)
        order == OrStr(filter.order, DefaultOrder)
        search == filter.search
        where == IF search # <<>> THEN {[field |-> SearchField, pattern |-> search]} ELSE {}
    IN Paginated(findAndCount(store, where, limit, offset, sort, order), limit, offset)

\* update: the UPDATE, then findById; a miss is an internal Error
implUpdateResult(store, id) ==
    LET entity == repoFindById(store, id)
    IN IF entity = <<>> THEN [status |-> "Error", data |-> <<>>]
       ELSE [status |-> "ok", data |-> entity]

(***************************************************************************)
(* The service  ${Name}Service                                             *)
(***************************************************************************)
\* Math.ceil(total / limit)
MathFloorDiv(a, b) == a \div b
MathCeilDiv(a, b) == IF a % b = 0 THEN a \div b ELSE (a \div b) + 1

Envelope(result) ==
    IF result.status = "ok"
    THEN [status |-> "ok",
          data |-> result.data,
          paginate |-> [total |-> result.total, limit |-> result.limit,
                        offset |-> result.offset,
                        pages |-> MathCeilDiv(result.total, result.limit)]]
    ELSE result

serviceFindAll(store, pagination) == Envelope(implFindAll(store, pagination))
serviceFindWithFilter(store, filter) == Envelope(implFindWithFilter(store, filter))

\* findOne: NotFoundException when the repository returns null
serviceFindOneNoCheck(store, id) == [status |-> "ok", data |-> repoFindById(store, id)]
serviceFindOne(store, id) ==
    LET entity == repoFindById(store, id)
    IN IF entity = <<>> THEN [status |-> "NotFound", data |-> <<>>]
       ELSE [status |-> "ok", data |-> entity]

NoRequest == [op |-> "none"]

\* requests; 0 and "" stand for the falsy values (absent, zero, empty) that
\* the adapter replaces by its defaults
Sorts == {"", "updatedAt", "name"}
Orders == {"", "ASC", "DESC"}
Searches == {<<>>, <<"1">>}
Requests ==
    [limit : 0..MaxLimit, offset : 0..MaxOffset, sort : Sorts, order : Orders,
     search : Searches]
SvcRequests == {[limit |-> 0, offset |-> 0, sort |-> "", order |-> "", search |-> <<>>]}

SvcInit ==
    /\ rows = <<>>
    /\ clock = 1
    /\ upd = {}
    /\ del = {}
    /\ req \in SvcRequests
    /\ last = NoRequest

\* CURRENT_TIMESTAMP advances
Tick ==
    /\ clock < MaxClock
    /\ clock' = clock + 1
    /\ UNCHANGED <<rows, upd, del, last, req>>
    /\ UNCHANGED genVars

\* service.create(data)
Create(data) ==
    /\ Len(rows) < MaxRows
    /\ rows' = repoCreate(rows, data, clock)
    /\ last' = [op |-> "create", res |-> [status |-> "ok", data |-> <<rows'[Len(rows')]>>]]
    /\ UNCHANGED <<clock, upd, del, req>>
    /\ UNCHANGED genVars

\* service.findOne(id)
FindOne(id) ==
    /\ last' = [op |-> "findOne", id |-> id, res |-> serviceFindOne(rows, id)]
    /\ UNCHANGED <<rows, clock, upd, del, req>>
    /\ UNCHANGED genVars

\* service.findAll(pagination)
FindAll(pagination) ==
    /\ last' = [op |-> "findAll", req |-> pagination, res |-> serviceFindAll(rows, pagination)]
    /\ UNCHANGED <<rows, clock, upd, del, req>>
    /\ UNCHANGED genVars

\* service.findWithFilter(filter)
FindWithFilter(filter) ==
    /\ last' = [op |-> "findWithFilter", req |-> filter,
                res |-> serviceFindWithFilter(rows, filter)]
    /\ UNCHANGED <<rows, clock, upd, del, req>>
    /\ UNCHANGED genVars

\* service.update(id, data) up to the end of  await this.findOne(id)
UpdateFindOne(id, data) ==
    /\ Cardinality(upd) < MaxInflight
    /\ LET found == serviceFindOne(rows, id) IN
       IF found.status = "ok"
       THEN /\ upd' = upd \cup {[id |-> id, data |-> data]}
            /\ last' = [op |-> "update", phase |-> "findOne", id |-> id,
                        res |-> [status |-> "pending", data |-> <<>>]]
       ELSE /\ upd' = upd
            /\ last' = [op |-> "update", phase |-> "findOne", id |-> id, res |-> found]
    /\ UNCHANGED <<rows, clock, del, req>>
    /\ UNCHANGED genVars

\* ... and its continuation  return this.repo.update(id, data)
UpdateRepo(call) ==
    /\ call \in upd
    /\ upd' = upd \ {call}
    /\ rows' = ormUpdate(rows, call.id, call.data, clock)
    /\ last' = [op |-> "update", phase |-> "repo", id |-> call.id,
                res |-> implUpdateResult(rows', call.id)]
    /\ UNCHANGED <<clock, del, req>>
    /\ UNCHANGED genVars

\* service.delete(id) up to the end of  await this.findOne(id)
DeleteFindOne(id) ==
    /\ Cardinality(del) < MaxInflight
    /\ LET found == serviceFindOne(rows, id) IN
       IF found.status = "ok"
       THEN /\ del' = del \cup {[id |-> id]}
            /\ last' = [op |-> "delete", phase |-> "findOne", id |-> id,
                        res |-> [status |-> "pending", data |-> <<>>]]
       ELSE /\ del' = del
            /\ last' = [op |-> "delete", phase |-> "findOne", id |-> id, res |-> found]
    /\ UNCHANGED <<rows, clock, upd, req>>
    /\ UNCHANGED genVars

\* ... and its continuation  return this.repo.delete(id)
DeleteRepo(call) ==
    /\ call \in del
    /\ del' = del \ {call}
    /\ rows' = ormSoftDelete(rows, call.id, clock)
    /\ last' = [op |-> "delete", phase |-> "repo", id |-> call.id,
                res |-> [status |-> "ok", data |-> <<>>]]
    /\ UNCHANGED <<clock, upd, req>>
    /\ UNCHANGED genVars


(***************************************************************************)
(* Specifications                                                          *)
(***************************************************************************)
\* the generator is not running; the service does not touch the filesystem,
\* which is left out of its states
GenIdle ==
    /\ argv = <<>>
    /\ Name = <<>>
    /\ NAME = <<>>
    /\ pc = "guard"
    /\ idx = 1
    /\ exitCode = 0
    /\ errorReported = FALSE
    /\ fs = <<>>
    /\ fs0 = fs
    /\ made = <<>>
    /\ written = <<>>
    /\ run = 1
    /\ snap = fs

\* the service of a generated module, its calls interleaving at their awaits
Init == GenIdle /\ SvcInit

Next ==
    \/ Tick
    \/ \E data \in Payloads : Create(data)
    \/ \E id \in Ids : FindOne(id)
    \/ FindAll(req)
    \/ FindWithFilter(req)
    \/ \E id \in Ids, data \in Payloads : UpdateFindOne(id, data)
    \/ \E call \in upd : UpdateRepo(call)
    \/ \E id \in Ids : DeleteFindOne(id)
    \/ \E call \in del : DeleteRepo(call)

Spec == Init /\ [][Next]_vars

\* the generator script, invoked up to MaxRuns times with the same argument
InitGen == GenInit /\ SvcInit

SpecGen == InitGen /\ [][GenNext]_vars

\* the listings as functions of the table and of the request
RowStates ==
    {r \in [id : {0}, createdAt : 1..MaxClock, updatedAt : 1..MaxClock,
            deletedAt : {NULL} \cup 1..MaxClock] :
        /\ r.createdAt <= r.updatedAt
        /\ r.deletedAt # NULL => r.createdAt <= r.deletedAt /\ r.deletedAt <= r.updatedAt}

RECURSIVE StoresOfLen(_)
StoresOfLen(n) ==
    IF n = 0 THEN {<<>>}
    ELSE {Append(s, [r EXCEPT !.id = n]) :
            s \in StoresOfLen(n - 1),
            r \in RowStates} 

ListStores ==
    {s \in UNION {StoresOfLen(n) : n \in 0..MaxRows} :
        \A i \in DOMAIN s : i > 1 => s[i - 1].createdAt <= s[i].createdAt}

InitList ==
    /\ GenIdle
    /\ rows \in ListStores
    /\ clock = MaxClock
    /\ upd = {}
    /\ del = {}
    /\ req \in Requests
    /\ last = NoRequest

NextList == FindAll(req) \/ FindWithFilter(req)

SpecList == InitList /\ [][NextList]_vars


(***************************************************************************)
(* Properties                                                              *)
(***************************************************************************)
NoArgument == Len(argv) = 0 \/ argv[1] = <<>>
Succeeded == pc = "exit" /\ exitCode = 0
IsListing == last.op \in {"findAll", "findWithFilter"} /\ last.res.status = "ok"
LiveIndexes == {i \in DOMAIN rows : rows[i].deletedAt = NULL}
HasLiveRow(id) == \E i \in DOMAIN rows : rows[i].id = id /\ rows[i].deletedAt = NULL
IsSoftDeleted(store, id) == \E i \in DOMAIN store : store[i].id = id /\ store[i].deletedAt # NULL

\* C1: with a missing or empty resource name the run reports an error and
\* exits with a non-zero status, having called neither mkdirSync nor
\* writeFileSync and having left the filesystem as it found it.
C1_NoNameAbortsBeforeAnyWrite ==
    NoArgument =>
        /\ pc \in {"guard", "exit"}
        /\ made = <<>>
        /\ written = <<>>
        /\ fs = fs0
        /\ pc = "exit" => exitCode # 0 /\ errorReported

C1_Witness == pc = "exit" /\ Len(argv) = 1 /\ argv[1] = <<>> /\ exitCode = 1

\* C2: update(id, data) and delete(id) on an id without a live row signal
\* findOne's not-found condition, suspend no repository call and leave every
\* row as it was.
C2_NotFoundBeforeMutation ==
    [][(/\ last'.op \in {"update", "delete"}
        /\ last'.phase = "findOne"
        /\ ~HasLiveRow(last'.id)
        /\ \/ \E data \in Payloads : UpdateFindOne(last'.id, data)
           \/ DeleteFindOne(last'.id))
       => /\ last'.res.status = "NotFound"
          /\ rows' = rows
          /\ upd' = upd
          /\ del' = del]_vars

C2_Witness ==
    /\ last.op = "update"
    /\ last.res.status = "NotFound"
    /\ IsSoftDeleted(rows, last.id)

\* C3: a returned listing holds at most paginate.limit items and
\* paginate.pages is the least integer p with p * limit >= total; a requested
\* limit >= 1 is the limit of the envelope.
C3_PageBounds ==
    IsListing =>
        LET pg == last.res.paginate IN
        /\ Len(last.res.data) <= pg.limit
        /\ pg.limit >= 1
        /\ pg.pages >= 0
        /\ pg.pages * pg.limit >= pg.total
        /\ (pg.pages - 1) * pg.limit < pg.total
        /\ last.req.limit >= 1 => pg.limit = last.req.limit

C3_Witness ==
    /\ IsListing
    /\ last.req.limit >= 1
    /\ last.res.paginate.total >= 1
    /\ last.res.paginate.total % last.res.paginate.limit # 0

\* C4: the total of a listing is the number of live rows whatever the offset
\* and the limit, and an offset at or beyond that number yields no data.
C4_BeyondRange ==
    IsListing =>
        /\ last.res.paginate.total = Cardinality(LiveIndexes)
        /\ last.res.paginate.offset >= Cardinality(LiveIndexes) => last.res.data = <<>>

C4_Witness ==
    /\ IsListing
    /\ Cardinality(LiveIndexes) >= 1
    /\ last.req.offset >= Cardinality(LiveIndexes)
    /\ last.res.data = <<>>
    /\ last.res.paginate.total = Cardinality(LiveIndexes)

\* C5: a successful delete leaves the row in the table with deletedAt set; no
\* later step removes a soft-deleted row or clears its deletedAt; findOne on
\* it signals not-found and no listing contains it.
C5_SoftDeleteIsPermanent ==
    [][/\ \A i \in DOMAIN rows :
            rows[i].deletedAt # NULL =>
                /\ i \in DOMAIN rows'
                /\ rows'[i].id = rows[i].id
                /\ rows'[i].deletedAt # NULL
       /\ \A call \in del : DeleteRepo(call) => IsSoftDeleted(rows', call.id)
       /\ (last'.op = "findOne" /\ IsSoftDeleted(rows', last'.id))
            => last'.res.status = "NotFound"
       /\ (last'.op \in {"findAll", "findWithFilter"} /\ last'.res.status = "ok")
            => \A k \in DOMAIN last'.res.data : last'.res.data[k].deletedAt = NULL]_vars

C5_Witness ==
    /\ last.op = "findOne"
    /\ IsSoftDeleted(rows, last.id)
    /\ last.res.status = "NotFound"

\* C6: when a second run with the same name ends, the filesystem is what the
\* first run left; after a successful run every template's path holds the
\* template instantiated with the name, whatever was there before.
C6_TwiceIsOnce ==
    /\ (pc = "exit" /\ run >= 2) => fs = snap
    /\ Succeeded =>
         \A f \in FileNodes :
            fs[f] = [kind |-> "file",
                     content |-> <<[template |-> f, name |-> argv[1], Name |-> Name]>>]

C6_Witness == Succeeded /\ run = 2 /\ Len(written) = 12 /\ fs = snap

\* the paths of the generated module structure listed in README.md
DocumentedFiles ==
    { "domain/{name}.domain.ts", "dto/create-{name}.dto.ts", "dto/update-{name}.dto.ts",
      "dto/filter-{name}.dto.ts", "infrastructure/entities/{name}.entity.ts",
      "infrastructure/repositories/{name}.repository.ts",
      "infrastructure/repositories/{name}.repository.impl.ts",
      "infrastructure/providers/{name}.providers.ts", "mappers/{name}.mapper.ts",
      "{name}.service.ts", "{name}.controller.ts", "{name}.module.ts" }

SkeletonComplete ==
    written # <<>> =>
        /\ Len(made) = 7
        /\ \A i \in DOMAIN written :
              /\ Parent(written[i]) \in Range(made)
              /\ fs[Parent(written[i])].kind = "dir"

WritesExactly(n) ==
    Succeeded =>
        /\ Len(written) = n
        /\ Cardinality(Range(written)) = n
        /\ Range(written) = DocumentedFiles
        /\ \A f \in Range(written) : fs[f].kind = "file" /\ fs[f].content # <<>>

\* C7 (as stated): a successful run writes exactly eleven files, each at its
\* designated path, in directories the run made before the first write.
C7_ElevenFiles == WritesExactly(11) /\ SkeletonComplete

\* C7 (amended): a successful run writes exactly twelve files, one per
\* template, each at its designated path, in directories of the skeleton that
\* the run made before the first write.
C7_TwelveFiles == WritesExactly(12) /\ SkeletonComplete

C7_Witness == Succeeded /\ run = 1 /\ Len(written) = 12

SameButFirst ==
    /\ Len(Name) = Len(argv[1])
    /\ \A i \in 2..Len(argv[1]) : Name[i] = argv[1][i]

Computed == pc \in {"mkdir", "write", "report"} \/ Succeeded

\* C8 (as stated): for a name of lowercase letters the capitalized name has
\* the length of the name and differs from it only at position 0.
C8_AnyLowercase ==
    (Computed /\ \A i \in DOMAIN argv[1] : argv[1][i] \in {"a", "b", "sz"}) =>
        SameButFirst /\ Name[1] # argv[1][1]

\* C8 (amended): for a name of ASCII lowercase letters a-z the capitalized
\* name has the length of the name, its first character is the upper-case
\* form of the name's first character and the rest is unchanged.
C8_AsciiLowercase ==
    (Computed /\ \A i \in DOMAIN argv[1] : argv[1][i] \in {"a", "b"}) =>
        SameButFirst /\ Name[1] = (IF argv[1][1] = "a" THEN "A" ELSE "B")

C8_Witness == Succeeded /\ argv[1] = <<"b", "a">> /\ Name = <<"B", "a">>

\* C9: findWithFilter with a non-empty search matches, ignoring case, on a
\* column of the generated entity; data holds only matching rows and total
\* counts exactly the matching live rows.
C9_SearchOnEntityColumn ==
    (last.op = "findWithFilter" /\ last.req.search # <<>>) =>
        /\ SearchField \in EntityColumns
        /\ last.res.status = "ok"
        /\ \A k \in DOMAIN last.res.data :
              ILike(Text(last.res.data[k][SearchField]), last.req.search)
        /\ last.res.paginate.total =
              Cardinality({i \in LiveIndexes : ILike(Text(rows[i][SearchField]), last.req.search)})

\* C10: without a search string findWithFilter returns what findAll returns
\* for the same pagination values: the same outcome, data, total, limit and
\* offset.
C10_FilterWithoutSearchIsFindAll ==
    (last.op = "findWithFilter" /\ last.req.search = <<>>) =>
        LET all == implFindAll(rows, last.req) IN
        /\ last.res.status = all.status
        /\ all.status = "ok" =>
              /\ last.res.data = all.data
              /\ last.res.paginate.total = all.total
              /\ last.res.paginate.limit = all.limit
              /\ last.res.paginate.offset = all.offset

C10_Witness ==
    /\ last.op = "findWithFilter"
    /\ last.req.search = <<>>
    /\ last.req.order = ""
    /\ last.req.limit = 0
    /\ last.res.status = "ok"
    /\ Len(last.res.data) = 2
    /\ last.res.data[1].createdAt > last.res.data[2].createdAt

\* C11: when the soft delete of a row takes effect between an update's findOne
\* and its repository update, the update fails and leaves every field of the
\* row other than deletedAt as it was.
C11_SoftDeletedRowNotMutated ==
    [][\A call \in upd :
          (IsSoftDeleted(rows, call.id) /\ UpdateRepo(call))
          => /\ last'.res.status # "ok"
             /\ \A i \in DOMAIN rows :
                   rows[i].id = call.id =>
                      /\ rows'[i].id = rows[i].id
                      /\ rows'[i].createdAt = rows[i].createdAt
                      /\ rows'[i].updatedAt = rows[i].updatedAt]_vars

====
